---- MODULE Spec2Model ----
(***************************************************************************)
(* Verification model of the partitioned fetch engine of the Fusionbase    *)
(* Python client: DataStream._calc_skip_limit_tuples (the partition        *)
(* planner), the cache file name built in __get_data_from_fusionbase, and  *)
(* DataStream.get_data / get_dataframe (row-size estimate, plan, access    *)
(* probe, concurrent partition download behind a semaphore, reassembly of  *)
(* the cached partition files).                                            *)
(*                                                                         *)
(* Seven specifications share the module:                                  *)
(*   Spec        get_data calls against a remote dataset and a local cache *)
(*   ArgSpec     get_data calls with the whole argument list: skip and     *)
(*               limit outside their domain, multithread, result_type,     *)
(*               storage_path, with and without pandas                     *)
(*   PlannerSpec _calc_skip_limit_tuples applied to bounded inputs         *)
(*   KeySpec     the cache file name of two partition fetches              *)
(*   UploadSpec  update and replace with chunk=True                        *)
(*   RepeatSpec  a get_data call and the same call again with live=False   *)
(*   CancelSpec  get_data calls whose process is interrupted during the    *)
(*               download, the write of a partition file in two steps      *)
(***************************************************************************)
EXTENDS Integers, Sequences, FiniteSets, TLC

VARIABLES
    env,            \* the remote dataset and the machine: entry_count, cpu_count, avg_row, access, log
    cache,          \* files of tmp_dir: path |-> content
    pc,             \* position of the get_data call: idle, probe, fetch, load
    args,           \* arguments of the current (or last) call
    limit,          \* get_data's local `limit` after clamping (the one the file name uses)
    max_batches,    \* get_data's local max_batches
    skip_limit_batches, \* the plan: sequence of <<skip, limit>>
    probe,          \* the access-probe task
    tasks,          \* the partition tasks, one per planned partition
    sem,            \* free permits of request_semaphore
    tmp_path_set,   \* _tmp_path_set
    outcome,        \* what the last call did: returned rows, or raised
    printed,        \* messages the current (or last) call printed
    calls,          \* number of get_data calls started
    faults,         \* number of failed HTTP requests so far
    corrupted,      \* number of cache files damaged from outside so far
    storage,        \* the output directory <storage_path>/<key>/data: made, files
    http,           \* HTTP requests the current (or last) call has issued
    first,          \* RepeatSpec: what the first of the two equal calls did
    plan_in,        \* PlannerSpec: the arguments of _calc_skip_limit_tuples
    plan_out,       \* PlannerSpec: its result
    key_a,          \* KeySpec: parameters of the first partition fetch
    key_b,          \* KeySpec: parameters of the second partition fetch
    key_out,        \* KeySpec: the two file names
    upload,         \* UploadSpec: the update / replace call and how far it has come
    chunk_files,    \* UploadSpec: data_chunk_file_paths, each file as <<first row, rows>>
    sent            \* UploadSpec: the upload requests sent so far, in order

mainvars == <<env, cache, pc, args, limit, max_batches, skip_limit_batches, probe,
              tasks, sem, tmp_path_set, outcome, printed, calls, faults, corrupted,
              storage, http, first>>
planvars == <<plan_in, plan_out>>
keyvars == <<key_a, key_b, key_out>>
upvars == <<upload, chunk_files, sent>>
vars == <<mainvars, first, planvars, keyvars, upvars>>

----------------------------------------------------------------------------
(* Bounds of the model *)

MaxRows == 13          \* largest entry_count of the remote dataset
MaxCpu == 3            \* largest os.cpu_count()
MaxCalls == 2          \* get_data calls in one behaviour
MaxFaults == 1         \* failed HTTP requests in one behaviour
MaxCorrupt == 1        \* cache files damaged from outside in one behaviour
MaxPlanLimit == 7      \* PlannerSpec: largest limit
MaxPlanSkip == 2       \* PlannerSpec: largest initial_skip
MaxPlanBatches == 3    \* PlannerSpec: largest max_batches
MaxPlanRows == 9       \* PlannerSpec: largest stream_rows
MaxUploadRows == 4     \* UploadSpec: largest number of rows of data
MaxChunkSize == 4      \* UploadSpec: largest chunk_size

(* Python's None, for skip and limit (both are integers otherwise) *)
NoneVal == -99

Min(a, b) == IF a < b THEN a ELSE b
Max(a, b) == IF a > b THEN a ELSE b

----------------------------------------------------------------------------
(* The partition planner: DataStream._calc_skip_limit_tuples *)

ONE_AND_A_HALF_GB == 1610612736
FALLBACK_HARD_LIMIT == 5000

(* ONE_AND_A_HALF_GB / 1.2, computed as (G / 6) * 5 to stay within 32 bits:  *)
(* floor(G / (a * 1.2)) = floor(BudgetRows / a); G is a multiple of 6.       *)
BudgetRows == (ONE_AND_A_HALF_GB \div 6) * 5

CeilDiv(a, b) == (a + b - 1) \div b

(* hard_limit before the max_batches adjustment (lines 203-208);           *)
(* average_row_size_bytes = 0 divides by zero.                              *)
BaseHardLimit(average_row_size_bytes) ==
    IF average_row_size_bytes >= 0
    THEN BudgetRows \div average_row_size_bytes
    ELSE FALLBACK_HARD_LIMIT

(* hard_limit after lines 210-213; `limit / hard_limit < max_batches` with  *)
(* hard_limit > 0 is limit < max_batches * hard_limit.                       *)
HardLimit(lim, mb, average_row_size_bytes) ==
    LET base == BaseHardLimit(average_row_size_bytes)
        shrunk == CeilDiv(lim, mb)
    IN IF lim < mb * base
       THEN (IF shrunk = 1 THEN 2 ELSE shrunk)
       ELSE base

(* chunks(range(0, limit), size): the number of chunks and the i-th chunk    *)
(* (1-based) as the tuple (chunk[0] + initial_skip, chunk[-1] + 1 - chunk[0]) *)
NumChunks(lim, size) == IF lim <= 0 THEN 0 ELSE ((lim - 1) \div size) + 1

(* ChunkTuple with every chunk taken to be full, the last one too *)
ChunkTupleFullLast(i, lim, size, initial_skip) ==
    <<(i - 1) * size + initial_skip, size>>

ChunkTuple(i, lim, size, initial_skip) ==
    <<(i - 1) * size + initial_skip, Min(size, lim - (i - 1) * size)>>

(* filter(lambda x: x[0] <= stream_rows, ...): the offsets grow with i, so  *)
(* the tuples that stay are a prefix of the chunk list.                      *)
NumKept(lim, size, initial_skip, stream_rows) ==
    IF stream_rows < initial_skip THEN 0
    ELSE Min(NumChunks(lim, size), ((stream_rows - initial_skip) \div size) + 1)

(* The result of _calc_skip_limit_tuples: the list, or the exception raised *)
CalcSkipLimitTuples(lim, mb, initial_skip, average_row_size_bytes, stream_rows) ==
    IF average_row_size_bytes = 0
    THEN [err |-> "ZeroDivisionError", tuples |-> <<>>]
    ELSE IF BaseHardLimit(average_row_size_bytes) = 0
    THEN [err |-> "ZeroDivisionError", tuples |-> <<>>]
    ELSE LET size == HardLimit(lim, mb, average_row_size_bytes) - 1
         IN IF size < 0
            THEN [err |-> "ValueError", tuples |-> <<>>]
            ELSE IF size = 0
            THEN [err |-> "", tuples |-> <<>>]
            ELSE [err |-> "",
                  tuples |-> [i \in 1..NumKept(lim, size, initial_skip, stream_rows)
                               |-> ChunkTuple(i, lim, size, initial_skip)]]

----------------------------------------------------------------------------
(* The cache file name: __get_data_from_fusionbase, lines 924-936 *)

BASE_URI == "https://api.fusionbase.com/api/v1"
FB_COLUMNS == <<"fb_id", "fb_data_version", "fb_datetime">>

(* str() of an int or of None *)
Str(x) == IF x = NoneVal THEN "None" ELSE ToString(x)

RECURSIVE Join(_, _)
(* sep.join(seq) *)
Join(seq, sep) ==
    IF Len(seq) = 0 THEN ""
    ELSE IF Len(seq) = 1 THEN seq[1]
    ELSE seq[1] \o sep \o Join(Tail(seq), sep)

RECURSIVE Dedupe(_)
(* list(dict.fromkeys(seq)): the first occurrence of every element, in order *)
Dedupe(seq) ==
    IF Len(seq) = 0 THEN <<>>
    ELSE LET front == Dedupe(SubSeq(seq, 1, Len(seq) - 1))
             last == seq[Len(seq)]
         IN IF \E i \in 1..Len(front) : front[i] = last THEN front ELSE Append(front, last)

(* get_data lines 737-741; the empty sequence stands for fields = None *)
NormalizeFields(fields) ==
    IF Len(fields) > 0 THEN Dedupe(fields \o FB_COLUMNS) ELSE <<>>

(* json.dumps(query) of a dict of string pairs, given as a sequence of <<key, value>> *)
RECURSIVE JsonItems(_)
JsonItems(q) ==
    IF Len(q) = 0 THEN ""
    ELSE "\"" \o q[1][1] \o "\": \"" \o q[1][2] \o "\""
         \o (IF Len(q) > 1 THEN ", " ELSE "") \o JsonItems(Tail(q))

JsonDumps(q) == "{" \o JsonItems(q) \o "}"

(* hashlib.sha3_256(name).hexdigest()[:12]: the digest is taken to be free  *)
(* of collisions, so it is the name itself.                                  *)
Sha3Hex12(name) == name

(* _tmp_name before hashing; has_query is isinstance(query, dict)           *)
TmpName(base_uri, key, lim, offset, fields, has_query, query) ==
    LET plain == "fb_stream__" \o base_uri \o "__" \o key \o "__" \o Str(lim)
                 \o "___" \o Str(offset) \o "__" \o Str(offset)
        named == IF Len(fields) = 0 THEN plain
                 ELSE plain \o "___" \o Join(fields, "-")
    IN IF has_query THEN named \o "__" \o JsonDumps(query) ELSE named

(* _tmp_fpath, without the tmp_dir prefix every file shares *)
TmpPath(base_uri, key, lim, offset, fields, has_query, query) ==
    Sha3Hex12(TmpName(base_uri, key, lim, offset, fields, has_query, query)) \o ".json"

----------------------------------------------------------------------------
(* The remote service and the local cache directory *)

STREAM_KEY == "1001"
PROBE_LIMIT == 12             \* the probe window (0, 12)
DEFAULT_ACCESS_ROWS == 10     \* rows a request returns to a caller without entitlement

RowIds == 0..(MaxRows - 1)
NONE_PATH == "None"           \* the task result None; f"{None}.gz" names no file

GzFile(lo, n) == [kind |-> "gz", lo |-> lo, n |-> n]
Garbage == [kind |-> "garbage", lo |-> 0, n |-> 0]
(* A file opened with "wb" (line 978) whose body is not written to the end  *)
Partial == [kind |-> "partial", lo |-> 0, n |-> 0]

(* The rows GET ...?skip=<skip>&limit=<lim> answers with: the window, cut   *)
(* at the end of the dataset and, without entitlement, at 10 rows.           *)
ServerRows(skip, lim) ==
    LET granted == IF env.access = "default" THEN Min(lim, DEFAULT_ACCESS_ROWS) ELSE lim
    IN GzFile(skip, Max(0, Min(granted, env.entry_count - skip)))

IsFile(c, path) == path \in DOMAIN c
WriteFile(c, path, content) == (path :> content) @@ c
Unlink(c, path) == [q \in (DOMAIN c) \ {path} |-> c[q]]
FileRows(f) == {f.lo + j : j \in 0..(f.n - 1)}

----------------------------------------------------------------------------
(* result_type and storage_path: constants/ResultType.py, get_data lines 743-770 *)

(* PYTHON_LIST and PD_DATAFRAME take the same path through get_data up to   *)
(* line 1195, where the list becomes the result or a DataFrame: which of    *)
(* the two the caller asked for shows only when the call returns.            *)
IN_MEMORY == "PYTHON_LIST or PD_DATAFRAME"
JSON_FILES == "JSON_FILES"
PICKLE_FILES == "PICKLE_FILES"
FEATHER_FILES == "FEATHER_FILES"
PARQUET_FILES == "PARQUET_FILES"
CSV_FILES == "CSV_FILES"

(* lines 744-748: the result types get_data checks pandas for *)
PandasFileTypes == {CSV_FILES, FEATHER_FILES, PARQUET_FILES}
(* lines 755-761: the result types that need a storage_path *)
FileTypes == {JSON_FILES, CSV_FILES, PICKLE_FILES, FEATHER_FILES, PARQUET_FILES}

NO_STORAGE_PATH == ""         \* storage_path = None
STORAGE_PATH == "out"

(* The extension of the files __process_tmp_files writes *)
Extension(result_type) ==
    CASE result_type = JSON_FILES -> "json"
      [] result_type = CSV_FILES -> "csv"
      [] result_type = FEATHER_FILES -> "feather"
      [] result_type = PARQUET_FILES -> "parquet"
      [] result_type = PICKLE_FILES -> "pkl"

(* lines 1067-1081: the output file of the partition cached at tmp_path_file *)
PartFile(tmp_path_file, result_type) ==
    "ds_" \o STREAM_KEY \o "_part_" \o Sha3Hex12(tmp_path_file) \o "_unordered."
    \o Extension(result_type)

(* The directory storage_path/<key>/data: whether it exists, and its files *)
NoStorage == [made |-> FALSE, files |-> <<>>]

(* lines 743-763: the exception the checks of result_type and storage_path  *)
(* raise, or "" if they pass                                                 *)
CheckOutput(a) ==
    IF a.result_type \in PandasFileTypes /\ ~env.pandas THEN "ModuleNotFoundError"
    ELSE IF a.result_type \in FileTypes /\ a.storage_path = NO_STORAGE_PATH
    THEN "FileNotFoundError"
    ELSE ""

----------------------------------------------------------------------------
(* get_data up to the plan: lines 728-912 *)

(* lines 826-832 *)
MaxBatches(cpu_count) ==
    LET mb == IF cpu_count - 1 > 1 THEN cpu_count - 1 ELSE 1
    IN IF mb > 10 THEN 10 ELSE mb

(* _estimate_average_row_size: the size of the sampled rows over their      *)
(* number; any exception (a failed request, an empty sample) gives 0.        *)
EstimateAverageRowSize(request_ok) ==
    IF request_ok /\ env.entry_count > 0 THEN env.avg_row ELSE 0

(* math.ceil(ONE_AND_A_HALF_GB / (average_row_size_in_bytes * 1.2)) *)
MaxAllowedLimit(average_row_size_in_bytes) == CeilDiv(BudgetRows, average_row_size_in_bytes)

(* ClampLimit without the clamp of lines 780-793 *)
ClampLimitOnlyForQuery(a, max_allowed_limit) ==
    IF a.has_query THEN max_allowed_limit ELSE a.limit

(* lines 780-799: the limit the rest of the call (and the file name) uses *)
ClampLimit(a, max_allowed_limit) ==
    IF a.has_query THEN max_allowed_limit
    ELSE IF a.limit # NoneVal /\ a.limit > max_allowed_limit THEN max_allowed_limit
    ELSE a.limit

(* lines 851-912: the branch on skip and limit *)
PlanBatches(skip, lim, mb, average_row_size_in_bytes) ==
    IF skip # NoneVal /\ skip > -1 /\ lim # NoneVal /\ lim > -1
    THEN CalcSkipLimitTuples(lim, mb, skip, average_row_size_in_bytes, env.entry_count)
    ELSE IF skip = NoneVal /\ lim # NoneVal /\ lim > -1
    THEN CalcSkipLimitTuples(lim, mb, 0, average_row_size_in_bytes, env.entry_count)
    ELSE IF skip # NoneVal /\ (lim = NoneVal \/ lim = -1)
    THEN IF env.entry_count - skip < 1
         THEN [err |-> "Exception", tuples |-> <<>>]
         ELSE CalcSkipLimitTuples(env.entry_count, mb, skip, average_row_size_in_bytes,
                                  env.entry_count)
    ELSE CalcSkipLimitTuples(env.entry_count, mb, 0, average_row_size_in_bytes,
                             env.entry_count)

(* WindowError with limit = 0 let through *)
WindowErrorAcceptingZero(a) ==
    IF a.limit # NoneVal /\ a.limit < -1 THEN "ValueError"
    ELSE IF a.skip # NoneVal /\ a.skip < 0 THEN "ValueError"
    ELSE ""

(* lines 728-734: the check of limit and skip; None is no int and passes *)
WindowError(a) ==
    IF a.limit # NoneVal /\ (a.limit < -1 \/ a.limit = 0) THEN "ValueError"
    ELSE IF a.skip # NoneVal /\ a.skip < 0 THEN "ValueError"
    ELSE ""

(* Everything get_data does before it creates the probe task: the exception *)
(* it raises there, or the clamped limit and the plan; http counts the      *)
(* requests issued on the way (the row-size sample at line 775, the meta    *)
(* data at line 815), mkdir tells whether line 770 made the output          *)
(* directory.                                                                *)
Prepare(a, request_ok) ==
    LET est == EstimateAverageRowSize(request_ok)
        lim == IF est = 0 THEN a.limit ELSE ClampLimit(a, MaxAllowedLimit(est))
        plan == PlanBatches(a.skip, lim, MaxBatches(env.cpu_count), est)
        clamped == est # 0 /\ ~a.has_query /\ a.limit # NoneVal /\ a.limit > MaxAllowedLimit(est)
        mkdir == a.result_type \in FileTypes
    IN IF WindowError(a) # ""
       THEN [exc |-> WindowError(a), limit |-> a.limit, plan |-> <<>>, clamped |-> FALSE,
             http |-> 0, mkdir |-> FALSE]
       ELSE IF CheckOutput(a) # ""
       THEN [exc |-> CheckOutput(a), limit |-> a.limit, plan |-> <<>>, clamped |-> FALSE,
             http |-> 0, mkdir |-> FALSE]
       ELSE IF est = 0
       THEN [exc |-> "ZeroDivisionError", limit |-> a.limit, plan |-> <<>>, clamped |-> FALSE,
             http |-> 1, mkdir |-> mkdir]
       ELSE [exc |-> plan.err, limit |-> lim, plan |-> plan.tuples, clamped |-> clamped,
             http |-> 2, mkdir |-> mkdir]

----------------------------------------------------------------------------
(* __get_data_from_fusionbase: one partition task *)

CachePath(lim, offset, a) ==
    TmpPath(BASE_URI, STREAM_KEY, lim, offset, NormalizeFields(a.fields), a.has_query, a.query)

(* IsCached without `and not live` *)
IsCachedIgnoringLive(c, path, live) == IsFile(c, path)

(* line 942 *)
IsCached(c, path, live) == IsFile(c, path) /\ ~live

NoTask == [skip_limit |-> <<0, 0>>, path |-> "", state |-> "none", result |-> NONE_PATH,
           how |-> "", requests |-> 0]

(* A task run up to its first suspension: a cache hit returns at once;     *)
(* otherwise it takes a permit of request_semaphore if one is free and     *)
(* issues the request, or waits for a permit.                               *)
StartTask(skip_limit, path, cached, permit) ==
    [skip_limit |-> skip_limit, path |-> path,
     state |-> IF cached THEN "done" ELSE IF permit THEN "inflight" ELSE "waiting",
     result |-> IF cached THEN path ELSE NONE_PATH,
     how |-> IF cached THEN "cache" ELSE "",
     requests |-> IF ~cached /\ permit THEN 1 ELSE 0]

(* StartAll without the semaphore: every task that misses the cache issues *)
(* its request at once                                                       *)
StartAllUnbounded(batches, c, lim, a, permits) ==
    [i \in 1..Len(batches) |->
        StartTask(batches[i], CachePath(lim, batches[i][1], a),
                  IsCached(c, CachePath(lim, batches[i][1], a), a.live), TRUE)]

(* asyncio runs the created tasks in creation order, each up to its first  *)
(* suspension: the first `permits` tasks that miss the cache hold a permit. *)
StartAll(batches, c, lim, a, permits) ==
    LET path(i) == CachePath(lim, batches[i][1], a)
        miss(i) == ~IsCached(c, path(i), a.live)
        rank(i) == Cardinality({j \in 1..i : miss(j)})
    IN [i \in 1..Len(batches) |->
          StartTask(batches[i], path(i), ~miss(i), rank(i) <= permits)]

InFlight(ts) == {i \in 1..Len(ts) : ts[i].state = "inflight"}
Waiting(ts) == {i \in 1..Len(ts) : ts[i].state = "waiting"}
AllDone(ts) == \A i \in 1..Len(ts) : ts[i].state = "done"

(* lines 972-982 and the except clause: what the answer to the request     *)
(* makes of the task; "ok" has written the body to the cache file.          *)
Responses == {"ok", "transport", "unauthorized"}

FinishTask(t, response) ==
    [t EXCEPT !.state = "done",
              !.result = IF response = "ok" THEN t.path ELSE NONE_PATH,
              !.how = response]

----------------------------------------------------------------------------
(* Reassembly: __load__tmp_files and lines 1138-1210, get_dataframe *)

NoRows == [r \in RowIds |-> 0]

(* result_datastream_data after every file of _tmp_path_set was loaded:    *)
(* how often each row occurs; a file that is not gzip is skipped.           *)
LoadTmpFiles(c, paths) ==
    [r \in RowIds |->
        Cardinality({q \in paths : c[q].kind = "gz" /\ r \in FileRows(c[q])})]

(* gzip.open of a path that names no file raises FileNotFoundError *)
LoadRaises(c, paths) == \E q \in paths : ~IsFile(c, q)

(* fin.read() of a gzip stream that ends early raises EOFError (json.loads  *)
(* raises JSONDecodeError when the file is empty); lines 1061-1062 catch     *)
(* BadGzipFile only.                                                          *)
LoadTruncated(c, paths) == \E q \in paths : IsFile(c, q) /\ c[q].kind = "partial"

(* DropDuplicates on a column every row has the same value in: one row stays *)
DropDuplicatesByVersion(rows) ==
    [r \in RowIds |-> IF rows[r] > 0 /\ \A q \in RowIds : q < r => rows[q] = 0
                      THEN 1 ELSE 0]

(* df.drop_duplicates(subset=["fb_id"]) *)
DropDuplicates(rows) == [r \in RowIds |-> IF rows[r] > 0 THEN 1 ELSE 0]

RECURSIVE SumTo(_, _)
SumTo(rows, r) == IF r < 0 THEN 0 ELSE rows[r] + SumTo(rows, r - 1)
(* len() of a result *)
RowCount(rows) == SumTo(rows, MaxRows - 1)

(* What a call did; op names the method the caller called *)
Returned(op, rows) == [kind |-> "returned", op |-> op, exc |-> "", rows |-> rows]
(* line 1206: a call with a file result type returns None *)
ReturnedNone(result_type) ==
    [kind |-> "returned_none", op |-> result_type, exc |-> "", rows |-> NoRows]
Raised(exc) == [kind |-> "raised", op |-> "", exc |-> exc, rows |-> NoRows]
NoOutcome == [kind |-> "none", op |-> "", exc |-> "", rows |-> NoRows]

----------------------------------------------------------------------------
(* The environment and the arguments of the calls *)

RowSizes == {1024, 268435456}
SkipArgs == {NoneVal, 0, 2}
LimitArgs == {NoneVal, 3}
RowCounts == {0} \cup ((MaxRows - 3)..MaxRows)
CpuCounts == {1, MaxCpu}

Envs == [entry_count : RowCounts, cpu_count : CpuCounts, avg_row : RowSizes,
         access : {"full", "default"}, log : BOOLEAN, pandas : {TRUE}]

Args == [skip : SkipArgs, limit : LimitArgs, live : BOOLEAN,
         fields : {<<>>}, has_query : {FALSE}, query : {<<>>},
         multithread : {TRUE}, result_type : {IN_MEMORY}, storage_path : {NO_STORAGE_PATH}]

NoArgs == [skip |-> NoneVal, limit |-> NoneVal, live |-> FALSE,
           fields |-> <<>>, has_query |-> FALSE, query |-> <<>>,
           multithread |-> TRUE, result_type |-> IN_MEMORY,
           storage_path |-> NO_STORAGE_PATH]

(* PlannerSpec: the arguments _calc_skip_limit_tuples is applied to; the    *)
(* row sizes give the byte-budget caps 5, 3, 2, 1 and 0, -1 the fallback.    *)
PlanRowSizes == {-1, 0, 268435456, 447392426, 671088640, 1342177280, 1342177281}

PlanInputs == [limit : 0..MaxPlanLimit, max_batches : 1..MaxPlanBatches,
               initial_skip : 0..MaxPlanSkip, average_row_size_bytes : PlanRowSizes,
               stream_rows : 0..MaxPlanRows]

NoPlanInput == [limit |-> 0, max_batches |-> 1, initial_skip |-> 0,
                average_row_size_bytes |-> -1, stream_rows |-> 0]
NoPlan == [done |-> FALSE, err |-> "", tuples |-> <<>>]

(* KeySpec: the parameters of a partition fetch, skip_limit = (offset,     *)
(* count) among them; fields as the caller passes them, before get_data     *)
(* normalises them.                                                           *)
KeyParams == [key : {"1001", "1002"}, limit : {NoneVal, 5}, offset : {0, 4},
              count : {2, 4},
              fields : {<<>>, <<"a-b">>, <<"a", "b">>},
              has_query : BOOLEAN, query : {<< <<"k", "v">> >>}]

NoKey == [key |-> "", limit |-> NoneVal, offset |-> 0, count |-> 0, fields |-> <<>>,
          has_query |-> FALSE, query |-> <<>>]
NoKeyOut == [done |-> FALSE, a |-> "", b |-> ""]

DefaultEnv == [entry_count |-> 0, cpu_count |-> 1, avg_row |-> 1024,
               access |-> "full", log |-> FALSE, pandas |-> TRUE]

MainInit(envs) ==
    /\ env \in envs
    /\ cache = <<>>
    /\ pc = "idle"
    /\ args = NoArgs
    /\ limit = NoneVal
    /\ max_batches = 1
    /\ skip_limit_batches = <<>>
    /\ probe = NoTask
    /\ tasks = <<>>
    /\ sem = 0
    /\ tmp_path_set = {}
    /\ outcome = NoOutcome
    /\ printed = {}
    /\ calls = 0
    /\ faults = 0
    /\ corrupted = 0
    /\ storage = NoStorage
    /\ http = 0
    /\ first = NoOutcome

NoUpload == [op |-> "", kind |-> "", n |-> 0, chunk_size |-> 1, phase |-> "none"]

PlanIdle == plan_in = NoPlanInput /\ plan_out = NoPlan
KeyIdle == key_a = NoKey /\ key_b = NoKey /\ key_out = NoKeyOut
UploadIdle == upload = NoUpload /\ chunk_files = <<>> /\ sent = <<>>

Init == MainInit(Envs) /\ PlanIdle /\ KeyIdle /\ UploadIdle

----------------------------------------------------------------------------
(* get_data, step by step *)

(* ProbedBatches without the replacement of the plan *)
ProbedBatchesKeepPlan(f, batches) == batches

(* Lines 1001-1009: a probe file of exactly 10 rows replaces the plan by   *)
(* the one window (0, 10); a file that is not gzip leaves it alone.          *)
ProbedBatches(f, batches) ==
    IF f.kind = "gz" /\ f.n = DEFAULT_ACCESS_ROWS
    THEN << <<0, DEFAULT_ACCESS_ROWS>> >>
    ELSE batches

(* The call up to the creation of the probe task (lines 728-997): it        *)
(* raises, or it plans and starts the probe for the window (0, 12). The     *)
(* clamp warning is printed with force=True, the estimator prints its       *)
(* exception (line 289); multithread is read for the log message of line    *)
(* 835 only. The action leaves `first` to the specification: a caller who  *)
(* repeats the call keeps the first result (Repeat).                         *)
GetData(a, request_ok) ==
    /\ pc = "idle"
    /\ calls < MaxCalls
    /\ request_ok \/ faults < MaxFaults
    /\ LET pr == Prepare(a, request_ok)
           mb == MaxBatches(env.cpu_count)
           path == CachePath(pr.limit, 0, a)
           hit == IsCached(cache, path, a.live)
       IN /\ args' = a
          /\ calls' = calls + 1
          /\ faults' = IF request_ok THEN faults ELSE faults + 1
          /\ limit' = pr.limit
          /\ max_batches' = mb
          /\ tasks' = <<>>
          /\ tmp_path_set' = {}
          /\ printed' = (IF pr.clamped THEN {"limit_clamped"} ELSE {})
                         \cup (IF pr.http > 0 /\ EstimateAverageRowSize(request_ok) = 0
                                THEN {"estimate_failed"} ELSE {})
          /\ IF pr.exc # ""
             THEN /\ outcome' = Raised(pr.exc)
                  /\ pc' = "idle"
                  /\ skip_limit_batches' = <<>>
                  /\ probe' = NoTask
                  /\ sem' = mb
             ELSE /\ outcome' = NoOutcome
                  /\ pc' = "probe"
                  /\ skip_limit_batches' = pr.plan
                  /\ probe' = StartTask(<<0, PROBE_LIMIT>>, path, hit, TRUE)
                  /\ sem' = IF hit THEN mb ELSE mb - 1
          /\ storage' = [storage EXCEPT !.made = @ \/ pr.mkdir]
          /\ http' = IF pr.exc = "" /\ ~hit THEN pr.http + 1 ELSE pr.http
    /\ UNCHANGED <<env, cache, corrupted, planvars, keyvars, upvars>>

(* The answer to the probe's request arrives *)
ProbeRespond(response) ==
    /\ pc = "probe"
    /\ probe.state = "inflight"
    /\ response = "ok" \/ faults < MaxFaults
    /\ probe' = FinishTask(probe, response)
    /\ cache' = IF response = "ok"
                THEN WriteFile(cache, probe.path, ServerRows(0, PROBE_LIMIT))
                ELSE cache
    /\ sem' = sem + 1
    /\ faults' = IF response = "ok" THEN faults ELSE faults + 1
    /\ printed' = IF response # "ok" /\ env.log
                  THEN printed \cup {"partition_failed"} ELSE printed
    /\ UNCHANGED <<env, pc, args, limit, max_batches, skip_limit_batches, tasks,
                   tmp_path_set, outcome, calls, corrupted, storage, http,
                   first, planvars, keyvars, upvars>>

(* Lines 999-1018: the probe's file is read and removed, the plan is        *)
(* replaced by (0, 10) if it holds 10 rows, and the partition tasks are      *)
(* created; a probe without a file ends the download (line 1049), and so   *)
(* does a probe file that ends early: the EOFError of line 1001 is not a    *)
(* BadGzipFile, the finally clause removes the file.                          *)
ProbeInspect ==
    /\ pc = "probe"
    /\ probe.state = "done"
    /\ IF probe.result = NONE_PATH
       THEN /\ pc' = "load"
            /\ printed' = IF env.log THEN printed \cup {"download_error"} ELSE printed
            /\ UNCHANGED <<cache, skip_limit_batches, tasks, sem, tmp_path_set, http>>
       ELSE IF cache[probe.result].kind = "partial"
       THEN /\ pc' = "load"
            /\ cache' = Unlink(cache, probe.result)
            /\ printed' = IF env.log THEN printed \cup {"download_error"} ELSE printed
            /\ UNCHANGED <<skip_limit_batches, tasks, sem, tmp_path_set, http>>
       ELSE LET f == cache[probe.result]
                batches == ProbedBatches(f, skip_limit_batches)
                c == Unlink(cache, probe.result)
                ts == StartAll(batches, c, limit, args, sem)
            IN /\ cache' = c
               /\ skip_limit_batches' = batches
               /\ tasks' = ts
               /\ sem' = sem - Cardinality(InFlight(ts))
               /\ tmp_path_set' = {ts[i].path : i \in 1..Len(ts)}
               /\ pc' = "fetch"
               /\ printed' = printed
               /\ http' = http + Cardinality(InFlight(ts))
    /\ UNCHANGED <<env, args, limit, max_batches, probe, outcome, calls, faults,
                   corrupted, storage, first, planvars, keyvars, upvars>>

(* The longest-waiting task gets a permit of request_semaphore (asyncio     *)
(* wakes the waiters in the order they came) and issues its request.         *)
TaskAcquire(i) ==
    /\ pc = "fetch"
    /\ tasks[i].state = "waiting"
    /\ \A j \in Waiting(tasks) : i <= j
    /\ sem > 0
    /\ sem' = sem - 1
    /\ tasks' = [tasks EXCEPT ![i].state = "inflight", ![i].requests = @ + 1]
    /\ http' = http + 1
    /\ UNCHANGED <<env, cache, pc, args, limit, max_batches, skip_limit_batches, probe,
                   tmp_path_set, outcome, printed, calls, faults, corrupted, storage,
                   first, planvars, keyvars, upvars>>

(* The answer to a partition request arrives: the body is written to the   *)
(* cache file, or the exception is caught and the task returns None; the    *)
(* result joins _tmp_path_set (line 1048).                                   *)
TaskRespond(i, response) ==
    /\ pc = "fetch"
    /\ tasks[i].state = "inflight"
    /\ response = "ok" \/ faults < MaxFaults
    /\ tasks' = [tasks EXCEPT ![i] = FinishTask(tasks[i], response)]
    /\ cache' = IF response = "ok"
                THEN WriteFile(cache, tasks[i].path,
                               ServerRows(tasks[i].skip_limit[1], tasks[i].skip_limit[2]))
                ELSE cache
    /\ sem' = sem + 1
    /\ faults' = IF response = "ok" THEN faults ELSE faults + 1
    /\ tmp_path_set' = tmp_path_set \cup {tasks'[i].result}
    /\ printed' = IF response # "ok" /\ env.log
                  THEN printed \cup {"partition_failed"} ELSE printed
    /\ UNCHANGED <<env, pc, args, limit, max_batches, skip_limit_batches, probe,
                   outcome, calls, corrupted, storage, http, first, planvars, keyvars, upvars>>

(* Lines 1052-1210: the files of _tmp_path_set are loaded and get_data      *)
(* returns the rows, or raises.                                               *)
GetDataResult ==
    IF LoadRaises(cache, tmp_path_set)
    THEN Raised("FileNotFoundError")
    ELSE IF LoadTruncated(cache, tmp_path_set)
    THEN Raised("EOFError")
    ELSE Returned("get_data", LoadTmpFiles(cache, tmp_path_set))

(* get_dataframe (lines 1536-1546): get_data with the same arguments and   *)
(* result_type PD_DATAFRAME, then drop_duplicates on fb_id.                  *)
GetDataframeResult ==
    IF GetDataResult.kind = "raised"
    THEN GetDataResult
    ELSE Returned("get_dataframe", DropDuplicates(GetDataResult.rows))

(* get_data(result_type=PD_DATAFRAME), lines 1196-1197: pd.DataFrame(list);  *)
(* pd is None when pandas is not installed.                                  *)
GetDataPdResult ==
    IF GetDataResult.kind = "raised"
    THEN GetDataResult
    ELSE IF ~env.pandas
    THEN Raised("AttributeError")
    ELSE Returned("get_data_pd", GetDataResult.rows)

(* Lines 1172-1192: __process_tmp_files writes the rows of every file of    *)
(* _tmp_path_set that is gzip to its own file of the output directory; a    *)
(* file of that name is overwritten, every other file stays.                 *)
ProcessTmpFiles(files, c, paths, result_type) ==
    LET written == {q \in paths : IsFile(c, q) /\ c[q].kind = "gz"}
        names == {PartFile(q, result_type) : q \in written}
        source(nm) == CHOOSE q \in written : PartFile(q, result_type) = nm
    IN [nm \in names \cup DOMAIN files |->
           IF nm \in names
           THEN [type |-> result_type, lo |-> c[source(nm)].lo, n |-> c[source(nm)].n]
           ELSE files[nm]]

Downloaded ==
    \/ pc = "load"
    \/ pc = "fetch" /\ AllDone(tasks)

(* The call returns to a caller of get_data *)
Load ==
    /\ Downloaded
    /\ args.result_type = IN_MEMORY
    /\ pc' = "idle"
    /\ outcome' = GetDataResult
    /\ UNCHANGED <<env, cache, args, limit, max_batches, skip_limit_batches, probe,
                   tasks, sem, tmp_path_set, printed, calls, faults, corrupted,
                   storage, http, first, planvars, keyvars, upvars>>

(* The call returns to a caller of get_data(result_type=PD_DATAFRAME) *)
LoadPdDataframe ==
    /\ Downloaded
    /\ args.result_type = IN_MEMORY
    /\ pc' = "idle"
    /\ outcome' = GetDataPdResult
    /\ UNCHANGED <<env, cache, args, limit, max_batches, skip_limit_batches, probe,
                   tasks, sem, tmp_path_set, printed, calls, faults, corrupted,
                   storage, http, first, planvars, keyvars, upvars>>

(* The call had a file result type: the partitions are written to the       *)
(* output directory and the call returns None; a path of _tmp_path_set that *)
(* names no file raises FileNotFoundError out of the pool, whose other      *)
(* workers have written their files or not.                                  *)
StoreFiles ==
    /\ Downloaded
    /\ args.result_type \in FileTypes
    /\ pc' = "idle"
    /\ IF LoadRaises(cache, tmp_path_set)
       THEN /\ outcome' = Raised("FileNotFoundError")
            /\ \E done \in SUBSET {q \in tmp_path_set : IsFile(cache, q)} :
                  storage' = [storage EXCEPT
                      !.files = ProcessTmpFiles(@, cache, done, args.result_type)]
       ELSE /\ outcome' = ReturnedNone(args.result_type)
            /\ storage' = [storage EXCEPT
                  !.files = ProcessTmpFiles(@, cache, tmp_path_set, args.result_type)]
    /\ UNCHANGED <<env, cache, args, limit, max_batches, skip_limit_batches, probe,
                   tasks, sem, tmp_path_set, printed, calls, faults, corrupted,
                   http, first, planvars, keyvars, upvars>>

(* The call returns to a caller of get_dataframe / as_dataframe, which     *)
(* hands its arguments to get_data unchanged: which of the two methods the  *)
(* caller called shows only here.                                            *)
LoadDataframe ==
    /\ Downloaded
    /\ args.result_type = IN_MEMORY
    /\ env.pandas
    /\ pc' = "idle"
    /\ outcome' = GetDataframeResult
    /\ UNCHANGED <<env, cache, args, limit, max_batches, skip_limit_batches, probe,
                   tasks, sem, tmp_path_set, printed, calls, faults, corrupted,
                   storage, http, first, planvars, keyvars, upvars>>

(* Between two calls a cache file is damaged from outside: its content is  *)
(* no longer gzip.                                                           *)
Corrupt(path) ==
    /\ pc = "idle"
    /\ corrupted < MaxCorrupt
    /\ calls < MaxCalls
    /\ IsFile(cache, path)
    /\ cache[path].kind = "gz"
    /\ cache' = [cache EXCEPT ![path] = Garbage]
    /\ corrupted' = corrupted + 1
    /\ UNCHANGED <<env, pc, args, limit, max_batches, skip_limit_batches, probe, tasks,
                   sem, tmp_path_set, outcome, printed, calls, faults, storage, http,
                   first, planvars, keyvars, upvars>>

Next ==
    \/ \E a \in Args, request_ok \in BOOLEAN : GetData(a, request_ok) /\ UNCHANGED first
    \/ \E response \in Responses : ProbeRespond(response)
    \/ ProbeInspect
    \/ \E i \in 1..Len(tasks) : TaskAcquire(i)
    \/ \E i \in 1..Len(tasks), response \in Responses : TaskRespond(i, response)
    \/ Load
    \/ LoadPdDataframe
    \/ LoadDataframe
    \/ \E path \in DOMAIN cache : Corrupt(path)

Spec == Init /\ [][Next]_vars

----------------------------------------------------------------------------
(* ArgSpec: get_data called with its whole argument list (skip and limit    *)
(* outside their domain, multithread, result_type, storage_path), with and  *)
(* without pandas, against a service whose requests succeed.                 *)

ArgRowCounts == {2, MaxRows - 2}

ArgEnvs == [entry_count : ArgRowCounts, cpu_count : CpuCounts, avg_row : {268435456},
            access : {"full"}, log : BOOLEAN, pandas : BOOLEAN]

(* skip and limit inside and outside their domain *)
WindowArgs == [skip : {NoneVal, -1, 0, 2}, limit : {NoneVal, -2, -1, 0, 3, 7},
               live : {FALSE}, fields : {<<>>}, has_query : {FALSE}, query : {<<>>},
               multithread : {TRUE}, result_type : {IN_MEMORY},
               storage_path : {NO_STORAGE_PATH}]

(* multithread=False *)
ThreadArgs == [skip : {NoneVal}, limit : {NoneVal},
               live : {FALSE}, fields : {<<>>}, has_query : {FALSE}, query : {<<>>},
               multithread : {FALSE}, result_type : {IN_MEMORY},
               storage_path : {NO_STORAGE_PATH}]

(* the file result types, with and without a storage_path *)
OutputArgs == [skip : {NoneVal, 2}, limit : {NoneVal},
               live : {FALSE}, fields : {<<>>}, has_query : {FALSE}, query : {<<>>},
               multithread : {TRUE}, result_type : FileTypes,
               storage_path : {NO_STORAGE_PATH, STORAGE_PATH}]

(* a file result type together with a skip or limit outside its domain *)
RejectedOutputArgs == [skip : {NoneVal, -1}, limit : {0},
                       live : {FALSE}, fields : {<<>>}, has_query : {FALSE}, query : {<<>>},
                       multithread : {TRUE}, result_type : {JSON_FILES},
                       storage_path : {STORAGE_PATH}]

ArgArgs == WindowArgs \cup ThreadArgs \cup OutputArgs \cup RejectedOutputArgs

ArgInit == MainInit(ArgEnvs) /\ PlanIdle /\ KeyIdle /\ UploadIdle

ArgNext ==
    \/ \E a \in ArgArgs : GetData(a, TRUE) /\ UNCHANGED first
    \/ ProbeRespond("ok")
    \/ ProbeInspect
    \/ \E i \in 1..Len(tasks) : TaskAcquire(i)
    \/ \E i \in 1..Len(tasks) : TaskRespond(i, "ok")
    \/ Load
    \/ LoadPdDataframe
    \/ LoadDataframe
    \/ StoreFiles

ArgSpec == ArgInit /\ [][ArgNext]_vars

----------------------------------------------------------------------------
(* PlannerSpec: _calc_skip_limit_tuples applied to every bounded input *)

PlannerInit ==
    /\ MainInit({DefaultEnv})
    /\ KeyIdle
    /\ UploadIdle
    /\ plan_in \in PlanInputs
    /\ plan_out = NoPlan

CalcPlan ==
    /\ ~plan_out.done
    /\ LET r == CalcSkipLimitTuples(plan_in.limit, plan_in.max_batches, plan_in.initial_skip,
                                    plan_in.average_row_size_bytes, plan_in.stream_rows)
       IN plan_out' = [done |-> TRUE, err |-> r.err, tuples |-> r.tuples]
    /\ UNCHANGED <<mainvars, keyvars, upvars, plan_in>>

PlannerNext == CalcPlan

PlannerSpec == PlannerInit /\ [][PlannerNext]_vars

----------------------------------------------------------------------------
(* KeySpec: the cache file paths of two partition fetches *)

KeyPath(k) ==
    TmpPath(BASE_URI, k.key, k.limit, k.offset, NormalizeFields(k.fields), k.has_query, k.query)

KeyInit ==
    /\ MainInit({DefaultEnv})
    /\ PlanIdle
    /\ UploadIdle
    /\ key_a \in KeyParams
    /\ key_b \in KeyParams
    /\ key_out = NoKeyOut

CalcKeys ==
    /\ ~key_out.done
    /\ key_out' = [done |-> TRUE, a |-> KeyPath(key_a), b |-> KeyPath(key_b)]
    /\ UNCHANGED <<mainvars, planvars, upvars, key_a, key_b>>

KeyNext == CalcKeys

KeySpec == KeyInit /\ [][KeyNext]_vars

----------------------------------------------------------------------------
(* UploadSpec: update(chunk=True) and replace(chunk=True): DataChunker      *)
(* splits the rows into chunk files, which are sent one request at a time.  *)

ADD_DATA == "/data-stream/add/data"
REPLACE == "/data-stream/replace"

(* np.array_split(data, sections) of n rows: the first n % sections chunks  *)
(* hold n // sections + 1 rows, the others n // sections; chunk i (from 0)  *)
(* as <<first row, rows>>.                                                    *)
ArraySplit(n, sections, i) ==
    LET q == n \div sections
        m == n % sections
    IN <<i * q + Min(i, m), IF i < m THEN q + 1 ELSE q>>

(* DataChunker._store_data_chunks: one file per chunk, in chunk order; a    *)
(* chunk_size above len(data) is len(data).                                   *)
StoreDataChunks(n, chunk_size) ==
    LET sections == IF chunk_size > n THEN n ELSE chunk_size
    IN [i \in 1..sections |-> ArraySplit(n, sections, i - 1)]

(* One upload request: its endpoint, the rows of its data_file and the      *)
(* number of rows in its "data" field ("[]" holds none).                     *)
Request(endpoint, file, data_rows) ==
    [endpoint |-> endpoint, file |-> file, data_rows |-> data_rows]

(* _update(None, data_file) *)
UpdateRequest(file) == Request(ADD_DATA, file, 0)

(* replace, the first chunk: it goes to the replace endpoint with           *)
(* "data": json.dumps(data) if data is not None else "[]"; data is the      *)
(* caller's list, or None when the rows came as data_file_path.              *)
ReplaceRequest(file, kind, n) == Request(REPLACE, file, IF kind = "list" THEN n ELSE 0)

(* The request that carries chunk i (from 1) *)
ChunkRequest(u, files, i) ==
    IF u.op = "replace" /\ i = 1
    THEN ReplaceRequest(files[i], u.kind, u.n)
    ELSE UpdateRequest(files[i])

UploadInputs == [op : {"update", "replace"}, kind : {"list", "file"},
                 n : 1..MaxUploadRows, chunk_size : 1..MaxChunkSize, phase : {"called"}]

UploadInit ==
    /\ MainInit({DefaultEnv})
    /\ PlanIdle
    /\ KeyIdle
    /\ upload \in UploadInputs
    /\ chunk_files = <<>>
    /\ sent = <<>>

(* The rows are split and the chunk files are written *)
ChunkData ==
    /\ upload.phase = "called"
    /\ chunk_files' = StoreDataChunks(upload.n, upload.chunk_size)
    /\ upload' = [upload EXCEPT !.phase = "sending"]
    /\ UNCHANGED <<mainvars, planvars, keyvars, sent>>

(* The next chunk file is sent and answered; after the last one the call    *)
(* returns.                                                                   *)
SendChunk ==
    /\ upload.phase = "sending"
    /\ LET i == Len(sent) + 1
       IN /\ i <= Len(chunk_files)
          /\ sent' = Append(sent, ChunkRequest(upload, chunk_files, i))
          /\ upload' = [upload EXCEPT
                !.phase = IF i = Len(chunk_files) THEN "done" ELSE "sending"]
    /\ UNCHANGED <<mainvars, planvars, keyvars, chunk_files>>

UploadNext == ChunkData \/ SendChunk

UploadSpec == UploadInit /\ [][UploadNext]_vars

----------------------------------------------------------------------------
(* RepeatSpec: a caller calls get_data and, when the call is over, calls it *)
(* again with the same arguments and live=False; every request succeeds     *)
(* and the dataset stays as it is.                                            *)

RepeatEnvs == [entry_count : RowCounts, cpu_count : CpuCounts, avg_row : RowSizes,
               access : {"full", "default"}, log : {FALSE}, pandas : {TRUE}]

RepeatInit == MainInit(RepeatEnvs) /\ PlanIdle /\ KeyIdle /\ UploadIdle

(* The second call; the caller has kept what the first one did *)
Repeat ==
    /\ calls = 1
    /\ outcome.kind # "none"
    /\ GetData([args EXCEPT !.live = FALSE], TRUE)
    /\ first' = outcome

RepeatNext ==
    \/ \E a \in Args : calls = 0 /\ GetData(a, TRUE) /\ UNCHANGED first
    \/ Repeat
    \/ ProbeRespond("ok")
    \/ ProbeInspect
    \/ \E i \in 1..Len(tasks) : TaskAcquire(i)
    \/ \E i \in 1..Len(tasks) : TaskRespond(i, "ok")
    \/ Load

RepeatSpec == RepeatInit /\ [][RepeatNext]_vars

----------------------------------------------------------------------------
(* CancelSpec: the write of a partition file (lines 978-979) in its two     *)
(* steps, and a process that is interrupted during the download: the call   *)
(* ends with KeyboardInterrupt (not an Exception, so line 1049 does not     *)
(* catch it), its tasks are abandoned and the files stay as they are.        *)

CancelEnvs == [entry_count : {MaxRows - 2, MaxRows}, cpu_count : CpuCounts,
               avg_row : {268435456}, access : {"full"}, log : {FALSE}, pandas : {TRUE}]

CancelArgs == [skip : {NoneVal, 2}, limit : {NoneVal}, live : BOOLEAN,
               fields : {<<>>}, has_query : {FALSE}, query : {<<>>},
               multithread : {TRUE}, result_type : {IN_MEMORY},
               storage_path : {NO_STORAGE_PATH}]

CancelInit == MainInit(CancelEnvs) /\ PlanIdle /\ KeyIdle /\ UploadIdle

(* Lines 972-978: the response has status 200, its body is read, the        *)
(* semaphore is released and the file is opened for writing at its final    *)
(* path (aiofiles.open(..., "wb") creates or empties it).                    *)
TaskReceive(i) ==
    /\ pc = "fetch"
    /\ tasks[i].state = "inflight"
    /\ tasks' = [tasks EXCEPT ![i].state = "writing"]
    /\ cache' = WriteFile(cache, tasks[i].path, Partial)
    /\ sem' = sem + 1
    /\ UNCHANGED <<env, pc, args, limit, max_batches, skip_limit_batches, probe,
                   tmp_path_set, outcome, printed, calls, faults, corrupted, storage,
                   http, first, planvars, keyvars, upvars>>

(* Lines 979-981: the body is written, the file closed and the path         *)
(* returned; the result joins _tmp_path_set (line 1048).                     *)
TaskWritten(i) ==
    /\ pc = "fetch"
    /\ tasks[i].state = "writing"
    /\ tasks' = [tasks EXCEPT ![i] = FinishTask(tasks[i], "ok")]
    /\ cache' = WriteFile(cache, tasks[i].path,
                          ServerRows(tasks[i].skip_limit[1], tasks[i].skip_limit[2]))
    /\ tmp_path_set' = tmp_path_set \cup {tasks'[i].result}
    /\ UNCHANGED <<env, pc, args, limit, max_batches, skip_limit_batches, probe, sem,
                   outcome, printed, calls, faults, corrupted, storage, http, first,
                   planvars, keyvars, upvars>>

(* The process is interrupted while run_until_complete waits (lines 999,    *)
(* 1046): nothing in get_data removes or completes a file.                   *)
Interrupt ==
    /\ pc \in {"probe", "fetch"}
    /\ pc' = "idle"
    /\ outcome' = Raised("KeyboardInterrupt")
    /\ UNCHANGED <<env, cache, args, limit, max_batches, skip_limit_batches, probe,
                   tasks, sem, tmp_path_set, printed, calls, faults, corrupted,
                   storage, http, first, planvars, keyvars, upvars>>

CancelNext ==
    \/ \E a \in CancelArgs : GetData(a, TRUE) /\ UNCHANGED first
    \/ ProbeRespond("ok")
    \/ ProbeInspect
    \/ \E i \in 1..Len(tasks) : TaskAcquire(i)
    \/ \E i \in 1..Len(tasks) : TaskReceive(i)
    \/ \E i \in 1..Len(tasks) : TaskWritten(i)
    \/ Interrupt
    \/ Load

CancelSpec == CancelInit /\ [][CancelNext]_vars

----------------------------------------------------------------------------
(* Properties of get_data (Spec) *)

(* The rows the service holds for the windows of the given tasks *)
RowsOfTasks(ts, which) ==
    [r \in RowIds |->
        Cardinality({i \in which :
            r \in FileRows(ServerRows(ts[i].skip_limit[1], ts[i].skip_limit[2]))})]

TaskIds == 1..Len(tasks)
Succeeded == {i \in TaskIds : tasks[i].how = "ok"}
CallOver == pc = "idle" /\ outcome.kind # "none"

(* C1: when one partition download fails with a transport error and the    *)
(* others succeed, get_data returns exactly the rows of the partitions that *)
(* were fetched, and the failure is reported to the caller.                  *)
C1_PartialFailureTolerated ==
    (/\ CallOver
     /\ Len(tasks) >= 2
     /\ \E i \in TaskIds : /\ tasks[i].how = "transport"
                           /\ \A j \in TaskIds \ {i} : tasks[j].how = "ok")
    => /\ outcome.kind = "returned"
       /\ outcome.rows = RowsOfTasks(tasks, Succeeded)
       /\ "partition_failed" \in printed


(* A call that has started its partition tasks, or is over *)
AllTasks == IF probe.state = "none" THEN {} ELSE {probe} \cup {tasks[i] : i \in TaskIds}

(* C2: a partition whose cache file exists is fetched without any HTTP     *)
(* request when live is False, and its cached path is the result; with      *)
(* live True no fetch is answered from the cache and every fetch that has   *)
(* come to its turn has issued its request.                                  *)
C2_CacheHitSkipsRequest ==
    [][ /\ (pc = "probe" /\ pc' = "fetch") =>
             \A i \in 1..Len(tasks') :
                LET t == tasks'[i]
                IN /\ (IsFile(cache', t.path) /\ ~args.live)
                        => (t.state = "done" /\ t.requests = 0 /\ t.result = t.path)
                   /\ args.live => (t.how # "cache" /\ (t.state = "inflight" => t.requests = 1))
        /\ (pc = "idle" /\ pc' = "probe") =>
             /\ (IsFile(cache, probe'.path) /\ ~args'.live)
                   => (probe'.state = "done" /\ probe'.requests = 0
                       /\ probe'.result = probe'.path)
             /\ args'.live => (probe'.state = "inflight" /\ probe'.requests = 1)
        /\ \A i \in 1..Len(tasks) :
             (pc = "fetch" /\ pc' = "fetch" /\ tasks[i].how = "cache")
                => tasks'[i].requests = 0
        /\ (pc = "fetch" /\ pc' = "idle" /\ args.live)
             => \A i \in 1..Len(tasks) : tasks[i].requests = 1 ]_vars

C2_Witness ==
    /\ pc = "fetch"
    /\ ~args.live
    /\ \E i \in TaskIds : /\ tasks[i].how = "cache"
                          /\ tasks[i].requests = 0
                          /\ IsFile(cache, tasks[i].path)
                          /\ cache[tasks[i].path].kind = "gz"

(* C3: a cache file that is not gzip is treated as a miss: no fetch is     *)
(* answered from it, and a call with live False whose requests all succeed  *)
(* returns the rows of every planned partition.                              *)
C3_CorruptCacheRefetched ==
    pc = "fetch" =>
        /\ \A i \in TaskIds :
              tasks[i].how = "cache" => cache[tasks[i].path].kind = "gz"
        /\ (AllDone(tasks) /\ ~args.live /\ \A i \in TaskIds : tasks[i].how \in {"ok", "cache"})
              => /\ GetDataResult.kind = "returned"
                 /\ GetDataResult.rows = RowsOfTasks(tasks, TaskIds)

(* C4: a request answered with 401 makes get_data raise the authorization  *)
(* error; the call never returns a result.                                   *)
C4_UnauthorizedRaises ==
    (/\ CallOver
     /\ \E t \in AllTasks : t.how = "unauthorized")
    => outcome = Raised("NotAuthorizedError")

(* Every request of the call was answered, and answered with the rows *)
AllAnswered == \A t \in AllTasks : t.how \in {"ok", "cache"}

(* Every row of the dataset exactly once *)
WholeDataset == [r \in RowIds |-> IF r < env.entry_count THEN 1 ELSE 0]

(* C5: with full access and every download succeeding, get_dataframe()     *)
(* without skip and limit returns every row of the dataset exactly once.    *)
C5_DataframeIsWholeDataset ==
    (/\ CallOver
     /\ outcome.op = "get_dataframe"
     /\ args.skip = NoneVal /\ args.limit = NoneVal
     /\ env.access = "full"
     /\ faults = 0 /\ corrupted = 0
     /\ AllAnswered)
    => /\ outcome.kind = "returned"
       /\ outcome.rows = WholeDataset

(* C6: get_dataframe(skip=s, limit=l, live=True) with s >= 0, l > 0 and    *)
(* s + l <= entry_count returns exactly l rows when every download succeeds *)
C6_WindowHasLimitRows ==
    (/\ CallOver
     /\ outcome.op = "get_dataframe"
     /\ args.live
     /\ args.skip # NoneVal /\ args.skip >= 0
     /\ args.limit # NoneVal /\ args.limit > 0
     /\ args.skip + args.limit <= env.entry_count
     /\ env.access = "full"
     /\ faults = 0 /\ corrupted = 0
     /\ \A t \in AllTasks : t.how = "ok")
    => /\ outcome.kind = "returned"
       /\ RowCount(outcome.rows) = args.limit

(* The probe asked the service for 12 rows and was given 10 *)
ProbeTruncated ==
    /\ probe.how = "ok"
    /\ ServerRows(0, PROBE_LIMIT).n = DEFAULT_ACCESS_ROWS

(* C7: when the probe requests 12 rows and receives 10, the plan becomes   *)
(* the single window (0, 10) and get_data returns at most 10 rows, whatever *)
(* skip and limit the caller gave and however many rows the dataset has.    *)
C7_TruncatedProbeCapsResult ==
    ProbeTruncated =>
        /\ pc = "fetch" => skip_limit_batches = << <<0, DEFAULT_ACCESS_ROWS>> >>
        /\ (CallOver /\ outcome.kind = "returned")
              => RowCount(outcome.rows) <= DEFAULT_ACCESS_ROWS

C7_Witness ==
    /\ ProbeTruncated
    /\ CallOver
    /\ outcome.kind = "returned"
    /\ RowCount(outcome.rows) = DEFAULT_ACCESS_ROWS
    /\ env.entry_count > PROBE_LIMIT
    /\ args.limit = 3
    /\ args.skip = 2

(* C10: every planned partition has its task from the start of the         *)
(* download, and never more than max_batches = min(cpu_count - 1, 10), at   *)
(* least 1, requests are in flight.                                          *)
C10_BoundedParallelism ==
    calls > 0 =>
        /\ max_batches = Max(1, Min(env.cpu_count - 1, 10))
        /\ max_batches >= 1
        /\ sem >= 0
        /\ Cardinality({t \in AllTasks : t.state = "inflight"}) <= max_batches
        /\ pc = "fetch" =>
              /\ Len(tasks) = Len(skip_limit_batches)
              /\ \A i \in TaskIds : tasks[i].skip_limit = skip_limit_batches[i]

C10_Witness ==
    /\ pc = "fetch"
    /\ max_batches = 2
    /\ Cardinality(InFlight(tasks)) = max_batches
    /\ Waiting(tasks) # {}


----------------------------------------------------------------------------
(* Properties of _calc_skip_limit_tuples (PlannerSpec) *)

PartRows(t) == {t[1] + j : j \in 0..(t[2] - 1)}

(* The partitions are pairwise disjoint, lie within [lo, lo + n) and        *)
(* contain every row of it.                                                  *)
CoversExactly(tuples, lo, n) ==
    /\ \A i \in 1..Len(tuples) : tuples[i][2] >= 1 /\ PartRows(tuples[i]) \subseteq lo..(lo + n - 1)
    /\ \A i, j \in 1..Len(tuples) : i # j => PartRows(tuples[i]) \cap PartRows(tuples[j]) = {}
    /\ \A r \in lo..(lo + n - 1) : \E i \in 1..Len(tuples) : r \in PartRows(tuples[i])

PlannedRows(tuples) == UNION {PartRows(tuples[i]) : i \in 1..Len(tuples)}

CapAtLeastTwo ==
    \/ plan_in.average_row_size_bytes < 0
    \/ /\ plan_in.average_row_size_bytes >= 1
       /\ plan_in.average_row_size_bytes <= BudgetRows \div 2

----------------------------------------------------------------------------
(* Properties of the cache file name (KeySpec) *)

(* The two fetches agree on dataset key, limit, offset, field list and query *)
SameFetch(a, b) ==
    /\ a.key = b.key
    /\ a.limit = b.limit
    /\ a.offset = b.offset
    /\ NormalizeFields(a.fields) = NormalizeFields(b.fields)
    /\ a.has_query = b.has_query
    /\ a.has_query => a.query = b.query

(* C9: two partition fetches get the same cache file path if and only if   *)
(* they agree on dataset key, limit, offset, field list and query filter.   *)
C9_SamePathIffSameFetch ==
    key_out.done => ((key_out.a = key_out.b) <=> SameFetch(key_a, key_b))

----------------------------------------------------------------------------
(* Properties of get_data's arguments (ArgSpec) *)

RequestsInFlight == Cardinality({t \in AllTasks : t.state = "inflight"})

(* C11: with multithread=False no two partition requests are in flight at  *)
(* the same moment of the call, whatever the number of cores.                *)
C11_MultithreadOffIsSequential ==
    (calls > 0 /\ ~args.multithread) => RequestsInFlight <= 1

(* This step is a call of get_data *)
CallStep == pc = "idle" /\ calls' = calls + 1

(* C12: a call with an integer limit that is 0 or below -1, or an integer   *)
(* skip below 0, raises ValueError before any HTTP request, cache file or   *)
(* output directory; limit = -1, every limit > 0 and every skip >= 0 pass   *)
(* the check.                                                                 *)
C12_WindowCheckedFirst ==
    [][ CallStep =>
          LET bad == \/ args'.limit # NoneVal /\ (args'.limit = 0 \/ args'.limit < -1)
                     \/ args'.skip # NoneVal /\ args'.skip < 0
          IN /\ bad => /\ outcome' = Raised("ValueError")
                       /\ pc' = "idle"
                       /\ http' = 0
                       /\ cache' = cache
                       /\ storage' = storage
             /\ ~bad => outcome'.exc # "ValueError" ]_vars

C12_Witness ==
    /\ CallOver
    /\ args.limit = 0
    /\ args.result_type = JSON_FILES
    /\ outcome = Raised("ValueError")
    /\ http = 0
    /\ ~storage.made

(* The arguments of the call passed the checks of lines 728-763 *)
ArgsAccepted == WindowError(args) = "" /\ CheckOutput(args) = ""

(* C13: a skip beyond the row count (entry_count - skip < 1), with or       *)
(* without a limit, makes get_data raise a configuration error before any   *)
(* HTTP call.                                                                 *)
C13_SkipBeyondCountRaisesFirst ==
    (/\ CallOver
     /\ ArgsAccepted
     /\ args.skip # NoneVal
     /\ env.entry_count - args.skip < 1)
    => /\ outcome = Raised("Exception")
       /\ http = 0

(* The ceiling of line 776 for the dataset's row size *)
Ceiling == CeilDiv(BudgetRows, env.avg_row)

(* C14: without a query a limit above the ceiling is no error: the call     *)
(* goes on with the ceiling as its limit and prints a warning even when     *)
(* logging is off; a limit at or below the ceiling stays as it is, so the   *)
(* effective limit is min(limit, ceiling).                                    *)
C14_LimitClampedWithWarning ==
    (/\ calls > 0
     /\ ArgsAccepted
     /\ ~args.has_query
     /\ args.limit # NoneVal)
    => /\ limit = Min(args.limit, Ceiling)
       /\ ("limit_clamped" \in printed) <=> (args.limit > Ceiling)
       /\ args.limit > Ceiling => probe.state # "none"

C14_Witness ==
    /\ pc = "fetch"
    /\ ~env.log
    /\ args.limit > Ceiling
    /\ limit = Ceiling
    /\ "limit_clamped" \in printed
    /\ Len(tasks) > 0

(* C17: without pandas, a call for a result type that needs pandas          *)
(* (DataFrame, CSV, Feather, Parquet) raises the capability error before    *)
(* any network activity; a file result type without storage_path is         *)
(* rejected before any network activity.                                      *)
C17_CapabilityCheckedFirst ==
    (CallOver /\ WindowError(args) = "")
    => /\ (~env.pandas /\ args.result_type \in PandasFileTypes)
             => (outcome = Raised("ModuleNotFoundError") /\ http = 0)
       /\ (args.result_type \in FileTypes /\ args.storage_path = NO_STORAGE_PATH)
             => (outcome.kind = "raised" /\ http = 0)
       /\ (~env.pandas /\ args.result_type = IN_MEMORY)
             => (outcome.op # "get_data_pd" /\ outcome.exc # "AttributeError")

(* The rows of the files of one type in the output directory, with the      *)
(* number of files each row is in                                            *)
RowsInDir(files, result_type) ==
    [r \in RowIds |->
        Cardinality({nm \in DOMAIN files :
            /\ files[nm].type = result_type
            /\ r \in FileRows(files[nm])})]

(* C19: after a call for the whole stream with a file result type (JSON,    *)
(* CSV, Pickle) has returned None, the files of that type in the output     *)
(* directory hold exactly the rows as_dataframe() returns, each once,       *)
(* whatever calls went before on the same storage_path.                      *)
C19_OutputFilesHoldTheStream ==
    (/\ CallOver
     /\ outcome.kind = "returned_none"
     /\ outcome.op \in {JSON_FILES, CSV_FILES, PICKLE_FILES}
     /\ args.skip = NoneVal /\ args.limit = NoneVal)
    => /\ RowsInDir(storage.files, outcome.op) = GetDataframeResult.rows
       /\ RowsInDir(storage.files, outcome.op) = WholeDataset

----------------------------------------------------------------------------
(* More properties of get_data (Spec) *)

(* C15: for a dataset without rows get_data plans no partition, fetches     *)
(* none and returns an empty result without raising.                         *)
C15_EmptyDatasetReturnsEmpty ==
    (CallOver /\ env.entry_count = 0 /\ ArgsAccepted)
    => /\ outcome.kind = "returned"
       /\ outcome.rows = NoRows
       /\ tasks = <<>>

(* C16: a failed row-size estimate (the sample request fails, or the sample *)
(* is empty) is not propagated: the call goes on.                            *)
C16_EstimateFailureNotPropagated ==
    (CallOver /\ "estimate_failed" \in printed)
    => outcome.kind # "raised"

(* No row is in two of the files the call has fetched *)
NonOverlapping == \A r \in RowIds : LoadTmpFiles(cache, tmp_path_set)[r] <= 1

(* C18: for a set of fetched partitions without overlap, get_data as a      *)
(* list, get_data(result_type=PD_DATAFRAME) and get_dataframe() hold the    *)
(* same rows, hence the same number of rows.                                 *)
C18_MaterializationsAgree ==
    (/\ Downloaded
     /\ ~LoadRaises(cache, tmp_path_set)
     /\ NonOverlapping)
    => /\ GetDataResult.kind = "returned"
       /\ GetDataPdResult.kind = "returned"
       /\ GetDataframeResult.kind = "returned"
       /\ GetDataPdResult.rows = GetDataResult.rows
       /\ GetDataframeResult.rows = GetDataResult.rows
       /\ RowCount(GetDataframeResult.rows) = RowCount(GetDataResult.rows)

C18_Witness ==
    /\ Downloaded
    /\ Len(tasks) >= 2
    /\ ~LoadRaises(cache, tmp_path_set)
    /\ NonOverlapping
    /\ RowCount(GetDataResult.rows) = env.entry_count
    /\ RowCount(GetDataframeResult.rows) = env.entry_count
    /\ env.entry_count > 0

----------------------------------------------------------------------------
(* Properties of update and replace in chunks (UploadSpec) *)

(* How often row r was sent: in a data_file or in a "data" field *)
TimesSent(r) ==
    Cardinality({i \in 1..Len(sent) :
                    r >= sent[i].file[1] /\ r < sent[i].file[1] + sent[i].file[2]})
    + Cardinality({i \in 1..Len(sent) : r < sent[i].data_rows})

(* C20: update and replace with chunk=True and chunk_size = k on n >= k     *)
(* >= 1 rows send exactly k requests, one per chunk in chunk order (replace: *)
(* the first through the replace endpoint, the others through the update    *)
(* endpoint), and every row is sent to the server exactly once.              *)
C20_ChunksSentOnce ==
    (upload.phase = "done" /\ upload.n >= upload.chunk_size)
    => /\ Len(sent) = upload.chunk_size
       /\ \A i \in 1..Len(sent) :
             /\ sent[i].file = chunk_files[i]
             /\ sent[i].endpoint = IF upload.op = "replace" /\ i = 1 THEN REPLACE ELSE ADD_DATA
       /\ \A r \in 0..(upload.n - 1) : TimesSent(r) = 1

----------------------------------------------------------------------------
(* Properties of the access probe (Spec, ArgSpec) *)

(* C22: the file the probe writes, reads and deletes is never the cache    *)
(* file of a partition of the main fetch, and the probe is never answered   *)
(* from a file of the cache.                                                  *)
C22_ProbeFileIsThrowaway ==
    /\ pc = "fetch" => \A i \in TaskIds : tasks[i].path # probe.path
    /\ probe.how # "cache"

(* C29: a call with limit = l > 0 that returns rows returns at most l rows, *)
(* whatever the probe was given.                                              *)
C29_AtMostLimitRows ==
    (/\ CallOver
     /\ outcome.kind = "returned"
     /\ args.limit # NoneVal /\ args.limit > 0)
    => RowCount(outcome.rows) <= args.limit

(* C30: when only the probe's request fails, the planned partition tasks   *)
(* are still created and get_data returns their rows.                        *)
C30_ProbeFailureKeepsMainFetch ==
    (/\ CallOver
     /\ probe.how = "transport"
     /\ skip_limit_batches # <<>>
     /\ \A i \in TaskIds : tasks[i].how \in {"ok", "cache"})
    => /\ Len(tasks) = Len(skip_limit_batches)
       /\ outcome.kind = "returned"
       /\ RowCount(outcome.rows) > 0

(* The sum of the counts of a plan *)
RECURSIVE SumCounts(_)
SumCounts(tuples) ==
    IF tuples = <<>> THEN 0 ELSE Head(tuples)[2] + SumCounts(Tail(tuples))

(* C25: with skip alone (limit absent or -1) and skip < entry_count the     *)
(* planned counts sum to entry_count - skip and the partitions cover        *)
(* exactly the rows [skip, entry_count).                                      *)
C25_SkipOnlyPlansTheRest ==
    (/\ pc = "probe"
     /\ args.skip # NoneVal /\ args.skip >= 0
     /\ args.limit \in {NoneVal, -1}
     /\ args.skip < env.entry_count)
    => /\ SumCounts(skip_limit_batches) = env.entry_count - args.skip
       /\ CoversExactly(skip_limit_batches, args.skip, env.entry_count - args.skip)

(* C23: a probe that is given c < 12 rows leaves a plan of at most c rows  *)
(* for the main fetch; a probe that is given all 12 rows leaves the plan    *)
(* that was computed before it.                                               *)
C23_ShortProbeCapsPlan ==
    (pc = "fetch" /\ probe.how = "ok") =>
        LET c == ServerRows(0, PROBE_LIMIT).n
        IN IF c < PROBE_LIMIT
           THEN SumCounts(skip_limit_batches) <= c
           ELSE skip_limit_batches = Prepare(args, TRUE).plan

----------------------------------------------------------------------------
(* Properties of the partition sizes of _calc_skip_limit_tuples (PlannerSpec) *)

(* No partition is dropped for its offset: stream_rows reaches the end of   *)
(* the planned range.                                                         *)
RangeWithinStream == plan_in.stream_rows >= plan_in.initial_skip + plan_in.limit

(* C26: when the cap gives fewer than max_batches partitions and the        *)
(* planned row count is at least 2 * max_batches, the planner returns at    *)
(* least max_batches partitions and every partition but the last has at     *)
(* least 2 rows.                                                              *)
C26_ShrunkCapFillsBatches ==
    (/\ plan_out.done
     /\ plan_in.average_row_size_bytes # 0
     /\ BaseHardLimit(plan_in.average_row_size_bytes) >= 1
     /\ plan_in.limit < plan_in.max_batches * BaseHardLimit(plan_in.average_row_size_bytes)
     /\ plan_in.limit >= 2 * plan_in.max_batches
     /\ RangeWithinStream)
    => /\ plan_out.err = ""
       /\ Len(plan_out.tuples) >= plan_in.max_batches
       /\ \A i \in 1..(Len(plan_out.tuples) - 1) : plan_out.tuples[i][2] >= 2

(* C27: with a byte-budget cap c >= 2 and n / c >= max_batches the planner *)
(* returns exactly ceil(n / c) partitions, each of c rows but the last,     *)
(* which has the remainder.                                                   *)
C27_CapKeptWhenEnoughPartitions ==
    LET c == BaseHardLimit(plan_in.average_row_size_bytes)
        n == plan_in.limit
    IN (/\ plan_out.done
        /\ plan_in.average_row_size_bytes > 0
        /\ c >= 2
        /\ n > 0
        /\ n >= plan_in.max_batches * c
        /\ RangeWithinStream)
       => /\ plan_out.err = ""
          /\ Len(plan_out.tuples) = CeilDiv(n, c)
          /\ \A i \in 1..Len(plan_out.tuples) :
                plan_out.tuples[i] = <<plan_in.initial_skip + (i - 1) * c,
                                       Min(c, n - (i - 1) * c)>>

----------------------------------------------------------------------------
(* The partition's count and the cache file name (KeySpec) *)

(* C24: two partition fetches with the same offset and different counts    *)
(* never get the same cache file, so a fetch is answered from the cache     *)
(* only by a file downloaded for its own offset and count.                   *)
C24_KeyCoversCount ==
    (/\ key_out.done
     /\ key_a.offset = key_b.offset
     /\ key_a.count # key_b.count)
    => key_out.a # key_out.b

----------------------------------------------------------------------------
(* Properties of repeated and of interrupted calls (RepeatSpec, CancelSpec) *)

(* C28: after a call that returned its rows, the same call with live=False *)
(* on the unchanged dataset returns the same multiset of rows.               *)
C28_RepeatedFetchIsIdempotent ==
    (/\ calls = 2
     /\ CallOver
     /\ first.kind = "returned")
    => /\ outcome.kind = "returned"
       /\ outcome.rows = first.rows

(* No partition task was answered from a file that is not written to its end *)
AnsweredFromCompleteFile ==
    \A i \in TaskIds :
        (pc = "fetch" /\ tasks[i].how = "cache") => cache[tasks[i].path].kind # "partial"

(* C21: at no moment does a file at a cache path hold a partition that is  *)
(* not written to its end, and no fetch with live=False is answered from    *)
(* such a file.                                                               *)
C21_NoPartialFileAtCachePath ==
    /\ \A q \in DOMAIN cache : cache[q].kind # "partial"
    /\ AnsweredFromCompleteFile

====
